---------------------------- MODULE Spec2Model ----------------------------
(***************************************************************************)
(* A model of the teaching examples of the repository:                     *)
(*   - multiprocess_queue.py: the MD5 brute-force search, a coordinator    *)
(*     (main) and num_workers Worker processes around two FIFO queues;     *)
(*   - chunk_indices, the work partitioner, run step by step;              *)
(*   - Combinations, the index -> candidate string conversion;             *)
(*   - queues.py: the Queue and Stack containers over a deque.             *)
(* Four specifications share the module: Spec / FairSpec (the search),     *)
(* ChunkSpec (the partitioner alone), CombSpec (the generator alone) and   *)
(* QueuesSpec / FairQueuesSpec (a Queue and a Stack given the same calls). *)
(***************************************************************************)
EXTENDS Integers, Sequences, FiniteSets, TLC

(***************************************************************************)
(* Bounds of the model.                                                    *)
(***************************************************************************)
\* the search uses the first AlphabetSize letters of ascii_lowercase
AlphabetSize == 2
\* --max-length is drawn from 0..MaxLength
MaxLength == 2
\* --num-workers is drawn from 0..MaxWorkers
MaxWorkers == 2
\* digests are 0..HashMod-1; HashMod itself is the digest of no candidate
HashMod == 3
\* chunk_indices is run on length in 0..MaxChunkLength
MaxChunkLength == 7
\* ... and num_chunks in 0..MaxChunks
MaxChunks == 5
\* Combinations is built over alphabets of 0..MaxAlphabet letters
MaxAlphabet == 3
\* ... and lengths 0..MaxCombLength
MaxCombLength == 3
\* __getitem__ is called with indices from -IndexMargin to size + IndexMargin
IndexMargin == 3
\* a Queue and a Stack are given at most MaxElements elements in all
MaxElements == 3
\* ... each with a value in 1..NumValues
NumValues == 2

(***************************************************************************)
(* Python helpers.                                                         *)
(***************************************************************************)
\* string.ascii_lowercase, a string being the sequence of its characters
ascii_lowercase ==
    << "a", "b", "c", "d", "e", "f", "g", "h", "i", "j", "k", "l", "m",
       "n", "o", "p", "q", "r", "s", "t", "u", "v", "w", "x", "y", "z" >>

\* the value None
POISON_PILL == [none |-> TRUE]

\* b ** e on integers with e >= 0 (0 ** 0 is 1)
RECURSIVE Pow(_, _)
Pow(b, e) == IF e = 0 THEN 1 ELSE b * Pow(b, e - 1)

Min(a, b) == IF a <= b THEN a ELSE b

\* round(a / b) for b > 0: the nearest integer, a tie going to the even one
Round(a, b) ==
    LET q == a \div b
        r == a % b
    IN  IF 2 * r < b THEN q
        ELSE IF 2 * r > b THEN q + 1
        ELSE IF q % 2 = 0 THEN q ELSE q + 1

(***************************************************************************)
(* class Combinations                                                      *)
(***************************************************************************)
Combinations(alphabet, length) == [alphabet |-> alphabet, length |-> length]

\* Combinations.__len__
CombLen(self) == Pow(Len(self.alphabet), self.length)

\* the guard of __getitem__: the indices that raise IndexError
IndexRejectedOffByOne(self, index) == index > CombLen(self)
IndexRejected(self, index) == index >= CombLen(self)

\* the alphabet position picked for the digit of weight len(alphabet) ** i
DigitLittleEndian(self, index, i) ==
    (index \div Pow(Len(self.alphabet), self.length - 1 - i)) % Len(self.alphabet)
DigitShifted(self, index, i) ==
    (index \div Pow(Len(self.alphabet), i + 1)) % Len(self.alphabet)
Digit(self, index, i) ==
    (index \div Pow(Len(self.alphabet), i)) % Len(self.alphabet)

\* Combinations.__getitem__: [error |-> exception name or "", text |-> string].
\* The digits are joined for i = length-1 down to 0.  With an empty alphabet
\* the first digit divides (or takes a remainder) by zero.
GetItem(self, index) ==
    IF IndexRejected(self, index)
    THEN [error |-> "IndexError", text |-> << >>]
    ELSE IF self.length > 0 /\ Len(self.alphabet) = 0
    THEN [error |-> "ZeroDivisionError", text |-> << >>]
    ELSE [error |-> "",
          text  |-> [k \in 1..self.length |->
                        self.alphabet[Digit(self, index, self.length - k) + 1]]]

(***************************************************************************)
(* chunk_indices, a generator: its frame is                                *)
(*   [start, length, num_chunks, out, status]                              *)
(* where out is the sequence of pairs yielded so far and status is "run",  *)
(* "done" (the while loop ended) or "ZeroDivisionError".                   *)
(***************************************************************************)
ChunkFrame(length, num_chunks) ==
    [start |-> 0, length |-> length, num_chunks |-> num_chunks,
     out |-> << >>, status |-> "run"]

\* chunk_size = round(length / num_chunks)
ChunkSize(length, num_chunks) == Round(length, num_chunks)

\* yield start, (start := start + chunk_size)
NextStartKept(start, chunk_size) == start
NextStart(start, chunk_size) == start + chunk_size

\* length -= chunk_size
RemainingKept(length, chunk_size) == length
Remaining(length, chunk_size) == length - chunk_size

\* num_chunks -= 1
ChunksLeftSkips(num_chunks) == num_chunks - 2
ChunksLeft(num_chunks) == num_chunks - 1

\* one evaluation of the loop condition and, when it holds, of the loop body
ChunkStep(f) ==
    IF f.num_chunks > 0
    THEN LET n == Min(f.num_chunks, f.length)
         IN  IF n = 0
             THEN [f EXCEPT !.num_chunks = n, !.status = "ZeroDivisionError"]
             ELSE LET chunk_size == ChunkSize(f.length, n)
                  IN  [start      |-> NextStart(f.start, chunk_size),
                       length     |-> Remaining(f.length, chunk_size),
                       num_chunks |-> ChunksLeft(n),
                       out        |-> Append(f.out, <<f.start, f.start + chunk_size>>),
                       status     |-> "run"]
    ELSE [f EXCEPT !.status = "done"]

\* the generator run to its end
RECURSIVE ChunkRun(_)
ChunkRun(f) == IF f.status = "run" THEN ChunkRun(ChunkStep(f)) ELSE f

\* list(chunk_indices(length, num_chunks)) where no error is raised
chunk_indices(length, num_chunks) == ChunkRun(ChunkFrame(length, num_chunks)).out

(***************************************************************************)
(* class Job                                                               *)
(***************************************************************************)
Job(combinations, start_index, stop_index) ==
    [combinations |-> combinations,
     start_index  |-> start_index,
     stop_index   |-> stop_index]

\* the letter's position in ascii_lowercase
Ord(c) == CHOOSE i \in 1..Len(ascii_lowercase) : ascii_lowercase[i] = c

\* md5(text_bytes).hexdigest(), the library's digest, modelled as a fixed
\* function of the text into 0..HashMod-1 under which candidates may collide
RECURSIVE Md5(_)
Md5(text) ==
    IF text = << >> THEN 0
    ELSE (31 * Md5(SubSeq(text, 1, Len(text) - 1)) + Ord(text[Len(text)])) % HashMod

\* one pass of the for loop of Job.__call__ at `index`: the candidate, its
\* digest and the comparison with hash_value
Candidate(job, index) == GetItem(job.combinations, index)

MatchesAlways(job, index, target) == Candidate(job, index).error = ""
Matches(job, index, target) ==
    /\ Candidate(job, index).error = ""
    /\ Md5(Candidate(job, index).text) = target

\* the pass at `index` leaves the loop: by return, or by an IndexError
Leaves(job, index, target) ==
    Candidate(job, index).error # "" \/ Matches(job, index, target)

\* for index in range(self.start_index, self.stop_index), from `index` on:
\* the index at which the loop is left, or one >= stop_index when the range
\* is exhausted
RECURSIVE ScanFrom(_, _, _)
ScanFrom(job, index, target) ==
    IF index >= job.stop_index THEN index
    ELSE IF Leaves(job, index, target) THEN index
    ELSE ScanFrom(job, index + 1, target)

\* Job.__call__: [error, text, last], text being the first matching candidate
\* of the range or None (<< >>), last the index at which the loop ended
JobCall(job, target) ==
    LET last == ScanFrom(job, job.start_index, target)
    IN  IF last >= job.stop_index
        THEN [error |-> "", text |-> << >>, last |-> last]
        ELSE [error |-> Candidate(job, last).error,
              text  |-> Candidate(job, last).text,
              last  |-> last]

(***************************************************************************)
(* The search: main and the Worker processes.                              *)
(***************************************************************************)
VARIABLES
    hash_value,   \* args.hash_value
    max_length,   \* args.max_length
    num_workers,  \* args.num_workers
    todo,         \* main: the jobs the two for loops have still to put
    pc,           \* main: "enqueue", "while", "poll", "exit", "done"
    printed,      \* main: the lines printed so far
    queue_in,     \* multiprocessing.Queue: the items in it, oldest first
    queue_out,    \* multiprocessing.Queue
    wpc,          \* per Worker: "get", "call", "pill", "put", "stopped",
                  \*   "crashed", "terminated"
    wjob,         \* per Worker: the local `job`
    wtext,        \* per Worker: the local `plaintext`
    \* history, for the properties only
    hashed,       \* (text_length, index) -> number of times it was hashed
    dequeued,     \* the jobs taken from queue_in, in order
    observed,     \* per Worker: it has dequeued POISON_PILL
    published,    \* per Worker: number of puts on queue_out
    main_pills,   \* number of times main has put POISON_PILL
    out_log,      \* every item put on queue_out, in the order of the puts
    \* tables of pure functions, fixed by the arguments of the run
    preimages,    \* the candidates of this run whose digest is hash_value
    call_of       \* job -> what Job.__call__(hash_value) does on it

sysvars == << hash_value, max_length, num_workers, todo, pc, printed,
              queue_in, queue_out, wpc, wjob, wtext,
              hashed, dequeued, observed, published, main_pills,
              preimages, call_of, out_log >>

Workers == 1..num_workers

\* the alphabet of the search: ascii_lowercase, cut to AlphabetSize letters
Alphabet == SubSeq(ascii_lowercase, 1, AlphabetSize)

\* the candidates of one run: (text_length, index)
Candidates(maxlen) ==
    {c \in (1..maxlen) \X (0..(Pow(Len(Alphabet), maxlen) - 1)) :
        c[2] < Pow(Len(Alphabet), c[1])}

\* the jobs of one text_length: one per pair of chunk_indices
JobsOf(text_length, workers) ==
    LET combinations == Combinations(Alphabet, text_length)
        indices == chunk_indices(CombLen(combinations), workers)
    IN  [k \in 1..Len(indices) |-> Job(combinations, indices[k][1], indices[k][2])]

\* the jobs of the two for loops of main, in the order they are put
RECURSIVE AllJobs(_, _)
AllJobs(maxlen, workers) ==
    IF maxlen <= 0 THEN << >>
    ELSE AllJobs(maxlen - 1, workers) \o JobsOf(maxlen, workers)

SysInit ==
    /\ hash_value \in 0..HashMod
    /\ max_length \in 0..MaxLength
    /\ num_workers \in 0..MaxWorkers
    /\ todo = AllJobs(max_length, num_workers)
    /\ pc = "enqueue"
    /\ printed = << >>
    /\ queue_in = << >>
    /\ queue_out = << >>
    /\ wpc = [w \in Workers |-> "get"]
    /\ wjob = [w \in Workers |-> POISON_PILL]
    /\ wtext = [w \in Workers |-> << >>]
    /\ hashed = [c \in Candidates(max_length) |-> 0]
    /\ dequeued = << >>
    /\ observed = [w \in Workers |-> FALSE]
    /\ published = [w \in Workers |-> 0]
    /\ main_pills = 0
    /\ out_log = << >>
    /\ preimages = {c \in Candidates(max_length) :
                      Md5(GetItem(Combinations(Alphabet, c[1]), c[2]).text) = hash_value}
    /\ call_of = [job \in {todo[k] : k \in 1..Len(todo)} |-> JobCall(job, hash_value)]

\* Worker.is_alive()
IsAlive(w) == wpc[w] \in {"get", "call", "pill", "put"}

(* ---- Worker.run ---- *)

\* job = self.queue_in.get(); if job is POISON_PILL
WorkerGet(w) ==
    /\ wpc[w] = "get"
    /\ queue_in # << >>
    /\ queue_in' = Tail(queue_in)
    /\ wjob' = [wjob EXCEPT ![w] = Head(queue_in)]
    /\ IF Head(queue_in) = POISON_PILL
       THEN /\ wpc' = [wpc EXCEPT ![w] = "pill"]
            /\ observed' = [observed EXCEPT ![w] = TRUE]
            /\ UNCHANGED dequeued
       ELSE /\ wpc' = [wpc EXCEPT ![w] = "call"]
            /\ dequeued' = Append(dequeued, Head(queue_in))
            /\ UNCHANGED observed
    /\ UNCHANGED << hash_value, max_length, num_workers, todo, pc, printed,
                    queue_out, wtext, hashed, published, main_pills, preimages, call_of, out_log >>

\* self.queue_in.put(POISON_PILL); break
AfterPillLoop(w) == "get"
AfterPill(w) == "stopped"

PillBackTwice(q) == Append(Append(q, POISON_PILL), POISON_PILL)
PillBackNone(q) == q
PillBack(q) == Append(q, POISON_PILL)

WorkerPutPill(w) ==
    /\ wpc[w] = "pill"
    /\ queue_in' = PillBack(queue_in)
    /\ wpc' = [wpc EXCEPT ![w] = AfterPill(w)]
    /\ UNCHANGED << hash_value, max_length, num_workers, todo, pc, printed,
                    queue_out, wjob, wtext, hashed, dequeued, observed,
                    published, main_pills, preimages, call_of, out_log >>

\* plaintext := job(self.hash_value), the whole scan of the job's range
WorkerCall(w) ==
    /\ wpc[w] = "call"
    /\ LET r == call_of[wjob[w]]
       IN  /\ wtext' = [wtext EXCEPT ![w] = r.text]
           /\ wpc' = [wpc EXCEPT ![w] =
                        IF r.error # "" THEN "crashed"
                        ELSE IF r.text # << >> THEN "put" ELSE "get"]
           /\ hashed' = [c \in DOMAIN hashed |->
                           IF /\ c[1] = wjob[w].combinations.length
                              /\ wjob[w].start_index <= c[2]
                              /\ c[2] < wjob[w].stop_index
                              /\ \/ c[2] < r.last
                                 \/ c[2] = r.last /\ r.error = ""
                           THEN hashed[c] + 1 ELSE hashed[c]]
    /\ UNCHANGED << hash_value, max_length, num_workers, todo, pc, printed,
                    queue_in, queue_out, wjob, dequeued, observed,
                    published, main_pills, preimages, call_of, out_log >>

\* self.queue_out.put(plaintext); break
AfterPutLoop(w) == "get"
AfterPut(w) == "stopped"

WorkerPutResult(w) ==
    /\ wpc[w] = "put"
    /\ queue_out' = Append(queue_out, wtext[w])
    /\ published' = [published EXCEPT ![w] = @ + 1]
    /\ wpc' = [wpc EXCEPT ![w] = AfterPut(w)]
    /\ out_log' = Append(out_log, wtext[w])
    /\ UNCHANGED << hash_value, max_length, num_workers, todo, pc, printed,
                    queue_in, wjob, wtext, hashed, dequeued, observed,
                    main_pills, preimages, call_of >>

WorkerNext(w) ==
    \/ WorkerGet(w)
    \/ WorkerPutPill(w)
    \/ WorkerCall(w)
    \/ WorkerPutResult(w)

(* ---- main ---- *)

\* queue_in.put(Job(combinations, *indices)), one pass of the inner for loop
MainPutJob ==
    /\ pc = "enqueue"
    /\ todo # << >>
    /\ queue_in' = Append(queue_in, Head(todo))
    /\ todo' = Tail(todo)
    /\ UNCHANGED << hash_value, max_length, num_workers, pc, printed,
                    queue_out, wpc, wjob, wtext, hashed, dequeued, observed,
                    published, main_pills, preimages, call_of, out_log >>

\* the for loops are over
LoopsOverEarly == Len(todo) <= 1
LoopsOver == todo = << >>

\* queue_in.put(POISON_PILL), after the for loops
MainPutPill ==
    /\ pc = "enqueue"
    /\ LoopsOver
    /\ queue_in' = Append(queue_in, POISON_PILL)
    /\ main_pills' = main_pills + 1
    /\ pc' = "while"
    /\ UNCHANGED << hash_value, max_length, num_workers, todo, printed,
                    queue_out, wpc, wjob, wtext, hashed, dequeued, observed,
                    published, preimages, call_of, out_log >>

\* the lines main prints
Solution(text) == [kind |-> "solution", text |-> text]
Unable == [kind |-> "Unable to find a solution", text |-> << >>]

\* while any(worker.is_alive() for worker in workers): ... else: print(...)
AnyAlive == \E w \in Workers : IsAlive(w)

MainWhile ==
    /\ pc = "while"
    /\ IF AnyAlive
       THEN pc' = "poll" /\ UNCHANGED printed
       ELSE pc' = "exit" /\ printed' = Append(printed, Unable)
    /\ UNCHANGED << hash_value, max_length, num_workers, todo,
                    queue_in, queue_out, wpc, wjob, wtext, hashed, dequeued,
                    observed, published, main_pills, preimages, call_of, out_log >>

\* the item queue_out.get returns: the oldest one
ReceivedNewest(q) == q[Len(q)]
Received(q) == Head(q)

\* solution = queue_out.get(timeout=0.1) returns; if solution: print; break
MainPollGet ==
    /\ pc = "poll"
    /\ queue_out # << >>
    /\ queue_out' = Tail(queue_out)
    /\ IF Received(queue_out) # << >>
       THEN pc' = "exit" /\ printed' = Append(printed, Solution(Received(queue_out)))
       ELSE pc' = "while" /\ UNCHANGED printed
    /\ UNCHANGED << hash_value, max_length, num_workers, todo,
                    queue_in, wpc, wjob, wtext, hashed, dequeued,
                    observed, published, main_pills, preimages, call_of, out_log >>

\* queue_out.get(timeout=0.1) raises queue.Empty; pass
MainPollEmpty ==
    /\ pc = "poll"
    /\ queue_out = << >>
    /\ pc' = "while"
    /\ UNCHANGED << hash_value, max_length, num_workers, todo, printed,
                    queue_in, queue_out, wpc, wjob, wtext, hashed, dequeued,
                    observed, published, main_pills, preimages, call_of, out_log >>

\* main returns and the main process exits: its daemon children that are
\* still alive are terminated (Worker is constructed with daemon=True)
MainExit ==
    /\ pc = "exit"
    /\ pc' = "done"
    /\ wpc' = [w \in Workers |-> IF IsAlive(w) THEN "terminated" ELSE wpc[w]]
    /\ UNCHANGED << hash_value, max_length, num_workers, todo, printed,
                    queue_in, queue_out, wjob, wtext, hashed, dequeued,
                    observed, published, main_pills, preimages, call_of, out_log >>

MainNext ==
    \/ MainPutJob
    \/ MainPutPill
    \/ MainWhile
    \/ MainPollGet
    \/ MainPollEmpty
    \/ MainExit

(***************************************************************************)
(* The partitioner alone: one generator of chunk_indices, advanced one     *)
(* loop pass at a time.                                                    *)
(***************************************************************************)
VARIABLES
    gen_args,     \* << length, num_chunks >> as passed
    gen           \* the generator's frame

chunkvars == << gen_args, gen >>

ChunkInit ==
    /\ gen_args \in (0..MaxChunkLength) \X (0..MaxChunks)
    /\ gen = ChunkFrame(gen_args[1], gen_args[2])

GenNext ==
    /\ gen.status = "run"
    /\ gen' = ChunkStep(gen)
    /\ UNCHANGED gen_args

(***************************************************************************)
(* The candidate generator alone: one Combinations object and calls of     *)
(* its __getitem__.                                                        *)
(***************************************************************************)
VARIABLES
    comb,         \* the Combinations object
    comb_index,   \* the index of the last call of __getitem__
    comb_got      \* what that call did: [error, text]

combvars == << comb, comb_index, comb_got >>

NotCalled == [error |-> "not called", text |-> << >>]

CombInit ==
    /\ comb \in {Combinations(SubSeq(ascii_lowercase, 1, n), l) :
                    n \in 0..MaxAlphabet, l \in 0..MaxCombLength}
    /\ comb_index = 0
    /\ comb_got = NotCalled

CombGetItem ==
    \E index \in (0 - IndexMargin)..(CombLen(comb) + IndexMargin) :
        /\ comb_index' = index
        /\ comb_got' = GetItem(comb, index)
        /\ UNCHANGED comb

(***************************************************************************)
(* queues.py: Queue and Stack.  An object is [cls, elements], elements     *)
(* being the deque self._elements, left end first.  An element is          *)
(* << n, value >>: the n-th object given to the container, and its value.  *)
(***************************************************************************)
\* __init__(self, *elements), inherited by Stack: deque(elements)
New(cls, elements) == [cls |-> cls, elements |-> elements]

\* __len__
Length(self) == Len(self.elements)

\* enqueue, inherited by Stack: deque.append
Enqueue(self, element) == [self EXCEPT !.elements = Append(@, element)]

\* deque.popleft: [self, error, value]
PopLeft(self) ==
    IF self.elements = << >>
    THEN [self |-> self, error |-> "IndexError", value |-> << >>]
    ELSE [self |-> [self EXCEPT !.elements = Tail(@)],
          error |-> "",
          value |-> Head(self.elements)]

\* deque.pop: [self, error, value]
Pop(self) ==
    IF self.elements = << >>
    THEN [self |-> self, error |-> "IndexError", value |-> << >>]
    ELSE [self |-> [self EXCEPT !.elements = SubSeq(@, 1, Len(@) - 1)],
          error |-> "",
          value |-> self.elements[Len(self.elements)]]

\* Queue.dequeue with the other end of the deque
QueueDequeueRight(self) == Pop(self)

\* Queue.dequeue
QueueDequeue(self) == PopLeft(self)

\* Stack.dequeue with the other end of the deque
StackDequeueLeft(self) == PopLeft(self)

\* Stack.dequeue, the override
StackDequeue(self) == Pop(self)

\* self.dequeue(): the method of the object's class
Dequeue(self) ==
    IF self.cls = "Stack" THEN StackDequeue(self) ELSE QueueDequeue(self)

\* __iter__'s loop condition leaving the last element
IterMoreThanOne(self) == Length(self) > 1

\* __iter__: while len(self) > 0
IterMore(self) == Length(self) > 0

\* one resumption of the generator of __iter__: [self, status, value]
IterResume(self) ==
    IF IterMore(self)
    THEN [self |-> Dequeue(self).self,
          status |-> IF Dequeue(self).error = "" THEN "yield" ELSE Dequeue(self).error,
          value |-> Dequeue(self).value]
    ELSE [self |-> self, status |-> "StopIteration", value |-> << >>]

VARIABLES
    queue,          \* a Queue
    stack,          \* a Stack built from the same elements
    queue_ret,      \* the last call of queue.dequeue(): [error, value]
    stack_ret,      \* the last call of stack.dequeue(): [error, value]
    queue_it,       \* iter(queue): [status, out, held, clean]
    stack_it,       \* iter(stack): [status, out, held, clean]
    added,          \* history: the values given to the containers, in order
    queue_removed,  \* history: the elements that left queue, in order
    stack_removed   \* history: the elements that left stack, in order

queuesvars == << queue, stack, queue_ret, stack_ret, queue_it, stack_it,
                 added, queue_removed, stack_removed >>

Values == 1..NumValues

\* the elements that a sequence of values becomes
Stamped(values) == [n \in 1..Len(values) |-> << n, values[n] >>]

\* no call of dequeue yet
NoReturn == [error |-> "not called", value |-> << >>]

\* no generator: status is "none", then "run" from iter() until the
\* generator is exhausted, then "done"; out is what it has yielded; held is
\* what the container held at iter(); clean is that nothing but the
\* generator has changed the container since
NoIter == [status |-> "none", out |-> << >>, held |-> << >>, clean |-> TRUE]

QueuesInit ==
    \E values \in UNION {[1..n -> Values] : n \in 0..MaxElements} :
        /\ added = values
        /\ queue = New("Queue", Stamped(values))
        /\ stack = New("Stack", Stamped(values))
        /\ queue_ret = NoReturn
        /\ stack_ret = NoReturn
        /\ queue_it = NoIter
        /\ stack_it = NoIter
        /\ queue_removed = << >>
        /\ stack_removed = << >>

\* a call from outside the generator has changed the container
Touched(it) == IF it.status = "none" THEN it ELSE [it EXCEPT !.clean = FALSE]

\* queue.enqueue(element) and stack.enqueue(element)
CallEnqueue(value) ==
    /\ Len(added) < MaxElements
    /\ added' = Append(added, value)
    /\ queue' = Enqueue(queue, << Len(added) + 1, value >>)
    /\ stack' = Enqueue(stack, << Len(added) + 1, value >>)
    /\ queue_it' = Touched(queue_it)
    /\ stack_it' = Touched(stack_it)
    /\ UNCHANGED << queue_ret, stack_ret, queue_removed, stack_removed >>

\* queue.dequeue() and stack.dequeue()
CallDequeue ==
    /\ queue' = Dequeue(queue).self
    /\ queue_ret' = [error |-> Dequeue(queue).error, value |-> Dequeue(queue).value]
    /\ queue_removed' = IF Dequeue(queue).error = ""
                        THEN Append(queue_removed, Dequeue(queue).value)
                        ELSE queue_removed
    /\ queue_it' = IF Dequeue(queue).error = "" THEN Touched(queue_it) ELSE queue_it
    /\ stack' = Dequeue(stack).self
    /\ stack_ret' = [error |-> Dequeue(stack).error, value |-> Dequeue(stack).value]
    /\ stack_removed' = IF Dequeue(stack).error = ""
                        THEN Append(stack_removed, Dequeue(stack).value)
                        ELSE stack_removed
    /\ stack_it' = IF Dequeue(stack).error = "" THEN Touched(stack_it) ELSE stack_it
    /\ UNCHANGED added

\* iter(queue) and iter(stack): two new generators, not yet started
CallIter ==
    /\ queue_it.status # "run"
    /\ stack_it.status # "run"
    /\ queue_it' = [status |-> "run", out |-> << >>,
                    held |-> queue.elements, clean |-> TRUE]
    /\ stack_it' = [status |-> "run", out |-> << >>,
                    held |-> stack.elements, clean |-> TRUE]
    /\ UNCHANGED << queue, stack, queue_ret, stack_ret, added,
                    queue_removed, stack_removed >>

\* the generator's record after one resumption
Resumed(it, self) ==
    IF IterResume(self).status = "yield"
    THEN [it EXCEPT !.out = Append(@, IterResume(self).value)]
    ELSE [it EXCEPT !.status = "done"]

\* next() on each generator that is not exhausted
CallNext ==
    /\ queue_it.status = "run" \/ stack_it.status = "run"
    /\ IF queue_it.status = "run"
       THEN /\ queue' = IterResume(queue).self
            /\ queue_it' = Resumed(queue_it, queue)
            /\ queue_removed' = IF IterResume(queue).status = "yield"
                                THEN Append(queue_removed, IterResume(queue).value)
                                ELSE queue_removed
       ELSE UNCHANGED << queue, queue_it, queue_removed >>
    /\ IF stack_it.status = "run"
       THEN /\ stack' = IterResume(stack).self
            /\ stack_it' = Resumed(stack_it, stack)
            /\ stack_removed' = IF IterResume(stack).status = "yield"
                                THEN Append(stack_removed, IterResume(stack).value)
                                ELSE stack_removed
       ELSE UNCHANGED << stack, stack_it, stack_removed >>
    /\ UNCHANGED << queue_ret, stack_ret, added >>

(***************************************************************************)
(* The specifications.  Each one runs one part and holds the others still. *)
(***************************************************************************)
vars == << sysvars, chunkvars, combvars, queuesvars >>

SysIdle ==
    /\ hash_value = 0 /\ max_length = 0 /\ num_workers = 0
    /\ todo = << >> /\ pc = "done" /\ printed = << >>
    /\ queue_in = << >> /\ queue_out = << >>
    /\ wpc = << >> /\ wjob = << >> /\ wtext = << >>
    /\ hashed = << >> /\ dequeued = << >>
    /\ observed = << >> /\ published = << >> /\ main_pills = 0
    /\ preimages = {}
    /\ call_of = << >>
    /\ out_log = << >>

ChunkIdle == gen_args = << 0, 0 >> /\ gen = ChunkFrame(0, 0)

CombIdle ==
    /\ comb = Combinations(<< >>, 0)
    /\ comb_index = 0
    /\ comb_got = NotCalled

QueuesIdle ==
    /\ added = << >>
    /\ queue = New("Queue", << >>)
    /\ stack = New("Stack", << >>)
    /\ queue_ret = NoReturn /\ stack_ret = NoReturn
    /\ queue_it = NoIter /\ stack_it = NoIter
    /\ queue_removed = << >> /\ stack_removed = << >>

\* the search
Init == SysInit /\ ChunkIdle /\ CombIdle /\ QueuesIdle

Get == \E w \in Workers : WorkerGet(w) /\ UNCHANGED << chunkvars, combvars, queuesvars >>
PutPill == \E w \in Workers : WorkerPutPill(w) /\ UNCHANGED << chunkvars, combvars, queuesvars >>
Call == \E w \in Workers : WorkerCall(w) /\ UNCHANGED << chunkvars, combvars, queuesvars >>
PutResult == \E w \in Workers : WorkerPutResult(w) /\ UNCHANGED << chunkvars, combvars, queuesvars >>
PutJob == MainPutJob /\ UNCHANGED << chunkvars, combvars, queuesvars >>
PutPoisonPill == MainPutPill /\ UNCHANGED << chunkvars, combvars, queuesvars >>
While == MainWhile /\ UNCHANGED << chunkvars, combvars, queuesvars >>
PollGet == MainPollGet /\ UNCHANGED << chunkvars, combvars, queuesvars >>
PollEmpty == MainPollEmpty /\ UNCHANGED << chunkvars, combvars, queuesvars >>
Exit == MainExit /\ UNCHANGED << chunkvars, combvars, queuesvars >>

Next ==
    \/ Get
    \/ PutPill
    \/ Call
    \/ PutResult
    \/ PutJob
    \/ PutPoisonPill
    \/ While
    \/ PollGet
    \/ PollEmpty
    \/ Exit

Spec == Init /\ [][Next]_vars

\* The processes are scheduled by the operating system: a process that can
\* take a step is not held back forever.
WorkerFair(w) == w \in Workers /\ WorkerNext(w) /\ UNCHANGED << chunkvars, combvars, queuesvars >>
MainFair == MainNext /\ UNCHANGED << chunkvars, combvars, queuesvars >>

FairSpec ==
    /\ Spec
    /\ WF_vars(MainFair)
    /\ \A w \in 1..MaxWorkers : WF_vars(WorkerFair(w))

\* the partitioner
ChunkSpecInit == SysIdle /\ ChunkInit /\ CombIdle /\ QueuesIdle
ChunkSpecNext == GenNext /\ UNCHANGED << sysvars, combvars, queuesvars >>
ChunkSpec == ChunkSpecInit /\ [][ChunkSpecNext]_vars

\* the candidate generator
CombSpecInit == SysIdle /\ ChunkIdle /\ CombInit /\ QueuesIdle
CombSpecNext == CombGetItem /\ UNCHANGED << sysvars, chunkvars, queuesvars >>
CombSpec == CombSpecInit /\ [][CombSpecNext]_vars

\* the containers
QueuesSpecInit == SysIdle /\ ChunkIdle /\ CombIdle /\ QueuesInit
DoEnqueue ==
    \E value \in Values :
        CallEnqueue(value) /\ UNCHANGED << sysvars, chunkvars, combvars >>
DoDequeue == CallDequeue /\ UNCHANGED << sysvars, chunkvars, combvars >>
DoIter == CallIter /\ UNCHANGED << sysvars, chunkvars, combvars >>
DoNext == CallNext /\ UNCHANGED << sysvars, chunkvars, combvars >>

QueuesSpecNext ==
    \/ DoEnqueue
    \/ DoDequeue
    \/ DoIter
    \/ DoNext

QueuesSpec == QueuesSpecInit /\ [][QueuesSpecNext]_vars

\* A for loop over a container resumes the generator until it is exhausted.
FairQueuesSpec == QueuesSpec /\ WF_vars(DoNext)

(***************************************************************************)
(* Vocabulary of the properties.                                           *)
(***************************************************************************)
\* some candidate of length 1..max_length has the digest hash_value
HasMatch == preimages # {}

\* main has put POISON_PILL
PillEnqueued == main_pills >= 1

\* the number of POISON_PILLs in a queue
PillsIn(q) == Cardinality({i \in 1..Len(q) : q[i] = POISON_PILL})

\* the workers holding the pill: dequeued and not yet put back
Holders == {w \in Workers : wpc[w] = "pill"}

\* the workers that were terminated while they held the pill
LostHolders ==
    {w \in Workers : wpc[w] = "terminated" /\ observed[w] /\ published[w] = 0}

AllStopped == \A w \in Workers : wpc[w] = "stopped"
NoneAlive == \A w \in Workers : ~IsAlive(w)

PrintedUnable == \E i \in 1..Len(printed) : printed[i] = Unable
PrintedSolution == \E i \in 1..Len(printed) : printed[i].kind = "solution"

(***************************************************************************)
(* C1                                                                      *)
(***************************************************************************)
\* C1 as stated: once main has put POISON_PILL, every worker eventually
\* dequeues the pill and stops.
C1_EveryWorkerObservesPill ==
    PillEnqueued ~> (\A w \in Workers : observed[w] /\ wpc[w] = "stopped")

\* C1 amended: once main has put POISON_PILL every worker eventually is no
\* longer alive; a worker that stopped by itself has dequeued the pill or has
\* published a plaintext; and when no candidate matches, every worker
\* dequeues the pill and stops.
C1_ShutdownPropagation ==
    /\ PillEnqueued ~> NoneAlive
    /\ (PillEnqueued /\ ~HasMatch) ~>
            (\A w \in Workers : observed[w] /\ wpc[w] = "stopped")
    /\ [](\A w \in Workers :
            wpc[w] = "stopped" => (observed[w] \/ published[w] = 1))

C1_Witness ==
    /\ num_workers >= 2
    /\ PillEnqueued
    /\ AllStopped
    /\ \E w \in Workers : observed[w] /\ published[w] = 0
    /\ \E w \in Workers : ~observed[w] /\ published[w] = 1

(***************************************************************************)
(* C2                                                                      *)
(***************************************************************************)
\* C2 as stated: when some candidate has the target digest and there is at
\* least one worker, main never prints "Unable to find a solution", and what
\* it has printed when it is done is a plaintext with the target digest.
C2_EndToEndSuccess ==
    (HasMatch /\ num_workers >= 1) =>
        /\ ~PrintedUnable
        /\ pc = "done" =>
             \E i \in 1..Len(printed) :
                /\ printed[i].kind = "solution"
                /\ Md5(printed[i].text) = hash_value

(***************************************************************************)
(* C3                                                                      *)
(***************************************************************************)
\* C3: when no candidate has the target digest, main eventually prints
\* "Unable to find a solution", never prints a solution, and nothing is ever
\* put on queue_out.
C3_EndToEndFailure ==
    /\ ~HasMatch ~> (printed = << Unable >>)
    /\ [](~HasMatch =>
            /\ ~PrintedSolution
            /\ queue_out = << >>
            /\ \A w \in Workers : published[w] = 0)

C3_Witness ==
    /\ ~HasMatch
    /\ num_workers = MaxWorkers
    /\ max_length = MaxLength
    /\ \A c \in DOMAIN hashed : hashed[c] = 1
    /\ printed = << Unable >>
    /\ pc = "done"

(***************************************************************************)
(* C4                                                                      *)
(***************************************************************************)
\* C4: for length > 0 and num_chunks > 0 the pairs of chunk_indices start at
\* 0, each starts where the previous one stops, every pair has
\* start <= stop, no error is raised, and the last pair stops at length.
C4_ChunksCoverExactly ==
    (gen_args[1] > 0 /\ gen_args[2] > 0) =>
        /\ gen.status # "ZeroDivisionError"
        /\ \A k \in 1..Len(gen.out) :
              /\ gen.out[k][1] <= gen.out[k][2]
              /\ gen.out[k][1] = (IF k = 1 THEN 0 ELSE gen.out[k - 1][2])
        /\ gen.status = "done" =>
              /\ Len(gen.out) >= 1
              /\ gen.out[Len(gen.out)][2] = gen_args[1]

C4_Witness ==
    /\ gen_args = << MaxChunkLength, 3 >>
    /\ gen.status = "done"
    /\ Len(gen.out) = 3
    /\ gen.out[3][2] = MaxChunkLength

(***************************************************************************)
(* C5                                                                      *)
(***************************************************************************)
ChunkSizes == [k \in 1..Len(gen.out) |-> gen.out[k][2] - gen.out[k][1]]

\* C5: for 0 < num_chunks <= length, any two chunks of chunk_indices have
\* sizes that differ by at most 1.
C5_ChunksBalanced ==
    (0 < gen_args[2] /\ gen_args[2] <= gen_args[1]) =>
        \A j, k \in 1..Len(gen.out) :
            /\ ChunkSizes[j] - ChunkSizes[k] <= 1
            /\ ChunkSizes[k] - ChunkSizes[j] <= 1

C5_Witness ==
    /\ 1 < gen_args[2] /\ gen_args[2] < gen_args[1]
    /\ gen.status = "done"
    /\ \E j, k \in 1..Len(gen.out) : ChunkSizes[j] = ChunkSizes[k] + 1

(***************************************************************************)
(* C6                                                                      *)
(***************************************************************************)
\* the strings __getitem__ returns for the indices 0..size-1
Produced == {GetItem(comb, i).text : i \in 0..(CombLen(comb) - 1)}

\* C6: over [0, size) __getitem__ returns strings of length `length` whose
\* characters are drawn from the alphabet, size different strings in all
\* (so no two indices give the same string); and so does the call made.
C6_Bijection ==
    /\ \A i \in 0..(CombLen(comb) - 1) :
          /\ GetItem(comb, i).error = ""
          /\ Len(GetItem(comb, i).text) = comb.length
          /\ \A k \in 1..comb.length :
                \E a \in 1..Len(comb.alphabet) :
                    GetItem(comb, i).text[k] = comb.alphabet[a]
    /\ Cardinality(Produced) = CombLen(comb)
    /\ (comb_got # NotCalled /\ 0 <= comb_index /\ comb_index < CombLen(comb)) =>
          comb_got.text \in Produced /\ comb_got.error = ""

C6_Witness ==
    /\ Len(comb.alphabet) = MaxAlphabet
    /\ comb.length = 2
    /\ comb_index = CombLen(comb) - 1
    /\ comb_got.error = ""
    /\ comb_got.text = << comb.alphabet[MaxAlphabet], comb.alphabet[MaxAlphabet] >>

(***************************************************************************)
(* C7                                                                      *)
(***************************************************************************)
\* C7: a call of __getitem__ with index >= size raises IndexError and
\* returns no string.
C7_IndexErrorAtSize ==
    (comb_got # NotCalled /\ comb_index >= CombLen(comb)) =>
        comb_got = [error |-> "IndexError", text |-> << >>]

C7_Witness ==
    /\ Len(comb.alphabet) = 2
    /\ comb.length = 2
    /\ comb_index = CombLen(comb)
    /\ comb_got.error = "IndexError"

(***************************************************************************)
(* C8                                                                      *)
(***************************************************************************)
\* C8: a worker puts at most one plaintext on queue_out; once it has, it is
\* stopped, stays stopped and takes nothing more from queue_in; queue_out
\* never holds more items than there are workers.
C8_AtMostOnePlaintext ==
    /\ [](\A w \in Workers :
            /\ published[w] <= 1
            /\ published[w] = 1 => wpc[w] = "stopped")
    /\ [](Len(queue_out) <= num_workers)
    /\ [][\A w \in Workers :
            published[w] = 1 =>
                /\ wpc'[w] = "stopped"
                /\ wjob'[w] = wjob[w]
                /\ published'[w] = 1]_vars

C8_Witness ==
    /\ num_workers >= 2
    /\ \E w \in Workers : published[w] = 1 /\ wpc[w] = "stopped"
    /\ \E i \in 1..Len(queue_in) : queue_in[i] # POISON_PILL
    /\ \E w \in Workers : wpc[w] = "get"

(***************************************************************************)
(* C9                                                                      *)
(***************************************************************************)
\* C9 as stated: main puts the pill exactly once and from then on there is
\* exactly one pill in the system, in queue_in or held by a worker; queue_in
\* never holds two pills; once no worker is alive the pill is in queue_in.
C9_ExactlyOneSentinel ==
    /\ main_pills <= 1
    /\ PillsIn(queue_in) <= 1
    /\ PillEnqueued =>
          /\ PillsIn(queue_in) + Cardinality(Holders) = 1
          /\ NoneAlive => PillsIn(queue_in) = 1

\* C9 amended: main puts the pill exactly once, on leaving its for loops;
\* queue_in never holds two pills; from then on, until main has exited,
\* there is exactly one pill, in queue_in or held by a worker; a worker that
\* is terminated at main's exit while it holds the pill takes it along; once
\* every worker has stopped by itself the pill is in queue_in.
C9_SentinelInvariant ==
    /\ main_pills <= 1
    /\ PillEnqueued <=> pc # "enqueue"
    /\ PillsIn(queue_in) <= 1
    /\ PillEnqueued =>
          /\ PillsIn(queue_in) + Cardinality(Holders) + Cardinality(LostHolders) = 1
          /\ pc # "done" => LostHolders = {}
          /\ AllStopped => PillsIn(queue_in) = 1

C9_Witness ==
    /\ num_workers >= 2
    /\ PillEnqueued
    /\ AllStopped
    /\ \A w \in Workers : observed[w]
    /\ queue_in = << POISON_PILL >>

(***************************************************************************)
(* C10                                                                     *)
(***************************************************************************)
\* C10: the pill is behind every job in queue_in, so a worker that dequeues
\* the pill leaves no job behind; no job is dequeued twice; no candidate is
\* hashed twice; and when no candidate matches and there are workers, every
\* candidate of every length has been hashed exactly once when the workers
\* have all stopped.
C10_JobsBeforeSentinel ==
    /\ [](\A i, j \in 1..Len(queue_in) :
            (i < j /\ queue_in[i] = POISON_PILL) => queue_in[j] = POISON_PILL)
    /\ [][\A w \in Workers :
            (wpc[w] = "get" /\ wpc'[w] = "pill") =>
                /\ todo = << >>
                /\ \A i \in 1..Len(queue_in) : queue_in[i] = POISON_PILL]_vars
    /\ [](\A i, j \in 1..Len(dequeued) : i # j => dequeued[i] # dequeued[j])
    /\ [](\A c \in DOMAIN hashed : hashed[c] <= 1)
    /\ []((~HasMatch /\ num_workers >= 1 /\ AllStopped) =>
            \A c \in DOMAIN hashed : hashed[c] = 1)

C10_Witness ==
    /\ ~HasMatch
    /\ num_workers = MaxWorkers
    /\ max_length = MaxLength
    /\ AllStopped
    /\ Len(dequeued) = MaxLength * MaxWorkers
    /\ \A c \in DOMAIN hashed : hashed[c] = 1

(***************************************************************************)
(* C11                                                                     *)
(***************************************************************************)
\* the jobs that exist: still to be put, in queue_in, or held by a worker
JobsAround ==
    {todo[k] : k \in 1..Len(todo)}
        \cup {queue_in[k] : k \in 1..Len(queue_in)}
        \cup {wjob[w] : w \in Workers}
        \cup {dequeued[k] : k \in 1..Len(dequeued)}

\* C11: every job satisfies 0 <= start_index <= stop_index <= size of its
\* candidate space, no call of a job raises an error, and no worker dies of
\* an IndexError.
C11_JobsInRange ==
    /\ \A job \in JobsAround \ {POISON_PILL} :
          /\ 0 <= job.start_index
          /\ job.start_index <= job.stop_index
          /\ job.stop_index <= CombLen(job.combinations)
    /\ \A job \in DOMAIN call_of : call_of[job].error = ""
    /\ \A w \in Workers : wpc[w] # "crashed"

C11_Witness ==
    /\ num_workers = MaxWorkers
    /\ \E w \in Workers :
          /\ wpc[w] = "get"
          /\ wjob[w] # POISON_PILL
          /\ wjob[w].combinations.length = MaxLength
          /\ wjob[w].start_index > 0
          /\ wjob[w].stop_index = CombLen(wjob[w].combinations)
          /\ hashed[<< MaxLength, wjob[w].stop_index - 1 >>] = 1

(***************************************************************************)
(* C12                                                                     *)
(***************************************************************************)
\* C12: for every number of workers (0 included) and every max_length, main
\* eventually leaves its poll loop and is done, having printed exactly one
\* line; it prints "Unable to find a solution" only when no worker is alive;
\* and every worker eventually is no longer alive (none waits on queue_in
\* forever).
C12_CoordinatorTerminates ==
    /\ <>(pc = "done")
    /\ [](Len(printed) <= 1)
    /\ [](pc \in {"exit", "done"} <=> Len(printed) = 1)
    /\ [](PrintedUnable => NoneAlive)
    /\ <>[]NoneAlive

C12_Witness ==
    /\ num_workers = MaxWorkers
    /\ pc = "done"
    /\ PrintedSolution
    /\ \E w \in Workers : wpc[w] = "terminated"

(***************************************************************************)
(* C13                                                                     *)
(***************************************************************************)
\* C13: a plaintext main prints is a string over the alphabet, of a length
\* in 1..max_length, whose digest is hash_value, and it is the first item
\* that was put on queue_out.
C13_ReportedResultSound ==
    \A i \in 1..Len(printed) :
        printed[i].kind = "solution" =>
            /\ Len(printed[i].text) \in 1..max_length
            /\ \A k \in 1..Len(printed[i].text) :
                  \E a \in 1..Len(Alphabet) : printed[i].text[k] = Alphabet[a]
            /\ Md5(printed[i].text) = hash_value
            /\ out_log # << >>
            /\ printed[i].text = out_log[1]

C13_Witness ==
    /\ PrintedSolution
    /\ Len(out_log) = 2
    /\ out_log[1] # out_log[2]
    /\ printed[1].text = out_log[1]

(***************************************************************************)
(* C14                                                                     *)
(***************************************************************************)
\* C14 as stated: for length > 0 and num_chunks > 0, chunk_indices yields
\* exactly num_chunks pairs.
C14_ExactlyNumChunks ==
    (gen_args[1] > 0 /\ gen_args[2] > 0 /\ gen.status = "done") =>
        Len(gen.out) = gen_args[2]

\* C14 amended: for length > 0 and num_chunks > 0, chunk_indices yields
\* min(num_chunks, length) pairs, which is num_chunks when
\* num_chunks <= length; main makes, for a text length, as many jobs as
\* that: one per worker when the workers are no more than the candidates.
C14_MinChunksOrLength ==
    (gen_args[1] > 0 /\ gen_args[2] > 0) =>
        /\ Len(gen.out) <= Min(gen_args[2], gen_args[1])
        /\ gen.status = "done" => Len(gen.out) = Min(gen_args[2], gen_args[1])
        /\ \A text_length \in 1..MaxLength :
              Len(JobsOf(text_length, gen_args[2])) =
                  Min(gen_args[2], Pow(Len(Alphabet), text_length))

C14_Witness ==
    /\ gen_args[1] > 1
    /\ gen_args[2] > gen_args[1]
    /\ gen.status = "done"
    /\ Len(gen.out) = gen_args[1]

(***************************************************************************)
(* C15                                                                     *)
(***************************************************************************)
\* C15 as stated: for length >= 0 and num_chunks > length, chunk_indices
\* raises no error, and its pairs cover [0, length) without gap or overlap.
C15_GracefulDegeneration ==
    (gen_args[1] >= 0 /\ gen_args[2] > gen_args[1]) =>
        /\ gen.status # "ZeroDivisionError"
        /\ \A k \in 1..Len(gen.out) :
              gen.out[k][1] = (IF k = 1 THEN 0 ELSE gen.out[k - 1][2])
        /\ gen.status = "done" =>
              (IF gen.out = << >> THEN 0 ELSE gen.out[Len(gen.out)][2]) = gen_args[1]

(***************************************************************************)
(* C16                                                                     *)
(***************************************************************************)
\* the position of a character in the alphabet, from 0
PositionIn(alphabet, c) == (CHOOSE a \in 1..Len(alphabet) : alphabet[a] = c) - 1

\* the number a string denotes, its characters read as digits in base
\* len(alphabet), the first one the most significant
RECURSIVE ValueOf(_, _)
ValueOf(alphabet, text) ==
    IF text = << >> THEN 0
    ELSE Len(alphabet) * ValueOf(alphabet, SubSeq(text, 1, Len(text) - 1))
            + PositionIn(alphabet, text[Len(text)])

\* s comes before t in the order of the alphabet (s and t of one length)
LexLess(alphabet, s, t) ==
    \E k \in 1..Len(s) :
        /\ PositionIn(alphabet, s[k]) < PositionIn(alphabet, t[k])
        /\ \A j \in 1..(k - 1) : s[j] = t[j]

\* C16: for index in [0, size) the string of __getitem__ has `length`
\* characters and denotes index in base len(alphabet), most significant
\* digit first; index 0 gives alphabet[0] repeated; the next index gives a
\* later string in alphabet order; and so for the call that was made.
C16_MixedRadix ==
    /\ \A i \in 0..(CombLen(comb) - 1) :
          /\ Len(GetItem(comb, i).text) = comb.length
          /\ ValueOf(comb.alphabet, GetItem(comb, i).text) = i
          /\ i > 0 => LexLess(comb.alphabet, GetItem(comb, i - 1).text,
                                             GetItem(comb, i).text)
    /\ (CombLen(comb) > 0 /\ comb.length > 0) =>
          \A k \in 1..comb.length : GetItem(comb, 0).text[k] = comb.alphabet[1]
    /\ (comb_got # NotCalled /\ 0 <= comb_index /\ comb_index < CombLen(comb)) =>
          /\ comb_got.error = ""
          /\ ValueOf(comb.alphabet, comb_got.text) = comb_index

C16_Witness ==
    /\ Len(comb.alphabet) = MaxAlphabet
    /\ comb.length = MaxCombLength
    /\ comb_index = 1 + Len(comb.alphabet)
    /\ comb_got.error = ""
    /\ comb_got.text[MaxCombLength] = comb.alphabet[2]
    /\ comb_got.text[MaxCombLength - 1] = comb.alphabet[2]
    /\ comb_got.text[1] = comb.alphabet[1]

(***************************************************************************)
(* C17                                                                     *)
(***************************************************************************)
\* C17 as stated: a call of __getitem__ with an index outside [0, size),
\* negative ones included, raises IndexError and returns no string.
C17_OutsideRangeRejected ==
    (comb_got # NotCalled /\ (comb_index < 0 \/ comb_index >= CombLen(comb))) =>
        comb_got = [error |-> "IndexError", text |-> << >>]

(***************************************************************************)
(* C18                                                                     *)
(***************************************************************************)
\* the elements of a sequence
ElementsOf(seq) == {seq[k] : k \in 1..Len(seq)}

\* C18: the elements that have left the Queue, in the order they left,
\* followed by the elements it holds, left end first, are the elements it
\* was given in the order given (constructor first): every removal took
\* the element held longest; len is the number given minus the number
\* removed; and a dequeue that returned gave an element that left, older
\* than every element still held.
C18_QueueIsFifo ==
    /\ queue_removed \o queue.elements = Stamped(added)
    /\ Length(queue) = Len(added) - Len(queue_removed)
    /\ queue_ret.error = "" =>
          /\ queue_ret.value \in ElementsOf(queue_removed)
          /\ \A e \in ElementsOf(queue.elements) : queue_ret.value[1] < e[1]
    /\ queue_ret.error \in {"", "IndexError", "not called"}

C18_Witness ==
    /\ Len(added) = MaxElements
    /\ queue_ret.error = ""
    /\ queue_ret.value[1] = 2
    /\ Len(queue_removed) = 2
    /\ Length(queue) = MaxElements - 2
    /\ queue_it.status = "none"

(***************************************************************************)
(* C19                                                                     *)
(***************************************************************************)
\* the element of a non-empty set given last
Newest(elements) == CHOOSE e \in elements : \A f \in elements : f[1] <= e[1]

\* the step removes an element from the Stack: the newest it held
StackRemovesNewest ==
    Len(stack_removed') = Len(stack_removed) + 1 =>
        /\ stack.elements # << >>
        /\ stack_removed'[Len(stack_removed')] = Newest(ElementsOf(stack.elements))
        /\ ElementsOf(stack.elements') =
              ElementsOf(stack.elements) \ {Newest(ElementsOf(stack.elements))}
        /\ Length(stack') = Length(stack) - 1

\* the step gives an element: Queue and Stack take it the same way
EnqueueAlike ==
    Len(added') = Len(added) + 1 =>
        /\ queue.elements' = Append(queue.elements, << Len(added'), added'[Len(added')] >>)
        /\ stack.elements' = Append(stack.elements, << Len(added'), added'[Len(added')] >>)

\* C19: a Stack given the calls a Queue is given has the Queue's len after
\* each of them and raises where the Queue raises; it holds, oldest first,
\* the elements given and not removed; enqueue changes both alike; and
\* every removal from the Stack takes the newest element it holds.
C19_StackIsLifo ==
    /\ [](/\ Length(stack) = Length(queue)
          /\ Len(stack_removed) = Len(queue_removed)
          /\ stack_ret.error = queue_ret.error
          /\ ElementsOf(stack_removed) \cup ElementsOf(stack.elements)
                = ElementsOf(Stamped(added))
          /\ Len(stack_removed) + Length(stack) = Len(added)
          /\ \A k \in 1..(Length(stack) - 1) :
                stack.elements[k][1] < stack.elements[k + 1][1]
          /\ stack_ret.error = "" => stack_ret.value \in ElementsOf(stack_removed))
    /\ [][StackRemovesNewest /\ EnqueueAlike]_vars

C19_Witness ==
    /\ Len(added) = MaxElements
    /\ stack_ret.error = ""
    /\ stack_ret.value[1] = MaxElements
    /\ queue_ret.value[1] = 2
    /\ Len(stack_removed) = 2
    /\ stack_removed[1][1] = MaxElements - 1
    /\ Length(stack) = MaxElements - 2
    /\ stack_it.status = "none"

(***************************************************************************)
(* C20                                                                     *)
(***************************************************************************)
Reverse(seq) == [k \in 1..Len(seq) |-> seq[Len(seq) + 1 - k]]

\* the step exhausts a generator: its container is empty
ExhaustedWhenEmpty ==
    /\ (queue_it.status = "run" /\ queue_it'.status = "done") => Length(queue') = 0
    /\ (stack_it.status = "run" /\ stack_it'.status = "done") => Length(stack') = 0

\* C20: while nothing but the generator changes the container, what the
\* generator has yielded and what the container still holds are what the
\* container held at iter(), first in first out for a Queue, last in first
\* out for a Stack; so an exhausted generator has yielded each of them
\* once, in that order, and left len at 0.  A generator that keeps being
\* resumed is exhausted, unless another call changes its container.
C20_IterationDrains ==
    /\ []((queue_it.status # "none" /\ queue_it.clean) =>
            /\ queue_it.out \o queue.elements = queue_it.held
            /\ queue_it.status = "done" =>
                  /\ queue_it.out = queue_it.held
                  /\ Length(queue) = 0)
    /\ []((stack_it.status # "none" /\ stack_it.clean) =>
            /\ stack.elements \o Reverse(stack_it.out) = stack_it.held
            /\ stack_it.status = "done" =>
                  /\ stack_it.out = Reverse(stack_it.held)
                  /\ Length(stack) = 0)
    /\ [][ExhaustedWhenEmpty]_vars
    /\ (queue_it.status = "run" /\ queue_it.clean)
          ~> (queue_it.status = "done" \/ ~queue_it.clean)
    /\ (stack_it.status = "run" /\ stack_it.clean)
          ~> (stack_it.status = "done" \/ ~stack_it.clean)

C20_Witness ==
    /\ queue_it.status = "done" /\ queue_it.clean
    /\ stack_it.status = "done" /\ stack_it.clean
    /\ Len(queue_removed) = MaxElements
    /\ Len(queue_it.out) = MaxElements - 1
    /\ queue_it.out[1][1] = 2
    /\ stack_it.out[1][1] = MaxElements - 1
    /\ Length(queue) = 0
    /\ Length(stack) = 0

=============================================================================
